---- MODULE Spec2Model ----
(***************************************************************************)
(* HVAC plant simulation over Modbus: the two server variants              *)
(* (modbusserver_sample.py, 5 ACs + one reserved register;                 *)
(* modserver_sample.py, 6 ACs), their two periodic threads, the Modbus     *)
(* endpoint started by run_server, and the client's three request          *)
(* handlers (modbusclient_sample.py).                                      *)
(*                                                                         *)
(* A datablock is a sequence; Modbus address a is element a+1 of it, for   *)
(* the threads and for the endpoint alike (the layout both files state in  *)
(* their comments: "high_T = 5+ac_index, good_T = 10+ac_index").           *)
(* A request that fails is one the server did not apply.                   *)
(* The two periodic threads take data_lock; the endpoint started by        *)
(* StartTcpServer is handed `context` only and never takes data_lock, so   *)
(* its register accesses interleave with the steps of a tick.              *)
(***************************************************************************)
EXTENDS Integers, Sequences, FiniteSets, TLC

\* ---------------------------------------------------------------- bounds
\* total number of client requests issued in one behaviour
MaxRequests == 2
\* number of ControlLoop ticks in one behaviour
MaxTicks == 2

\* ------------------------------------------------------------- constants
NUM_AC_UNITS_CLIENT == 5
CLIENT_HR_COUNT == 16
INITIAL_TEMP == 15
INITIAL_HIGH == 27
INITIAL_GOOD == 20
LAST_DUMMY_VALUE == 254
MIN_TEMP == 7
MAX_TEMP == 30
MAX_THRESHOLD == 50

\* the slave ids of `context`
Units == {1, 2}
\* the NUM_AC_UNITS of the two server variants in the repository
Layouts == {5, 6}
\* the web handlers' workers; a worker that is "off" never takes a request
Clients == {1, 2}

\* request parameters tried by the model
UnitInputs == {1}
\* set_coil: <<address, value>>
CoilInputs == {<<0, TRUE>>, <<0, FALSE>>, <<5, TRUE>>, <<-1, FALSE>>}
\* set_temp_threshold: <<acIndex, highTemp, goodTemp>>
ThresholdInputs == {<<0, 10, 5>>, <<0, 50, 12>>, <<0, 20, 25>>, <<0, 51, 20>>,
                    <<0, 20, -1>>, <<5, 10, 5>>, <<-1, 10, 5>>}

VARIABLES numAc, hr, co, di, lock, ctl, mir, req, nreq, nticks, synced, lastSet

vars == <<numAc, hr, co, di, lock, ctl, mir, req, nreq, nticks, synced, lastSet>>

\* ------------------------------------------------------------ datablocks
Rep(v, n) == [k \in 1..n |-> v]

\* ModbusSequentialDataBlock.getValues(address, count): a list slice
GetValues(values, address, count) ==
    SubSeq(values, address + 1,
           IF address + count < Len(values) THEN address + count ELSE Len(values))

\* ModbusSequentialDataBlock.setValues(address, values): a slice assignment
SetValues(values, address, new) ==
    SubSeq(values, 1, address) \o new
        \o SubSeq(values, address + Len(new) + 1, Len(values))

\* the range check the endpoint applies before it touches a block
Validate(values, address, count) ==
    address >= 0 /\ address + count <= Len(values)

\* number of holding registers of a unit: 16 (5 ACs + dummy) or 18 (6 ACs)
HrCount(m) == IF m = 5 THEN 3 * m + 1 ELSE 3 * m

db_hr_initial_values(m) ==
    Rep(INITIAL_TEMP, m) \o Rep(INITIAL_HIGH, m) \o Rep(INITIAL_GOOD, m)
        \o (IF m = 5 THEN <<LAST_DUMMY_VALUE>> ELSE <<>>)

\* ----------------------------------------------------------- ControlLoop
\* variant: the lower threshold is tested before the upper one
NewCoilStatusGoodFirst(temp, high, good, coil) ==
    IF temp < good THEN FALSE
    ELSE IF temp > high THEN TRUE
    ELSE coil

\* variant: the comparison with the lower threshold is reversed
NewCoilStatusFlipped(temp, high, good, coil) ==
    IF temp > high THEN TRUE
    ELSE IF temp > good THEN FALSE
    ELSE coil

\* variant: a two-way rule with no deadband
NewCoilStatusBinary(temp, high, good, coil) ==
    IF temp > high THEN TRUE ELSE FALSE

\* variant: the coil is switched on at the high threshold already
NewCoilStatusAtHigh(temp, high, good, coil) ==
    IF temp >= high THEN TRUE
    ELSE IF temp < good THEN FALSE
    ELSE coil

\* variant: a coil that is on is never switched off
NewCoilStatusLatched(temp, high, good, coil) ==
    IF temp > high THEN TRUE ELSE coil

\* the three-way rule for one AC
NewCoilStatus(temp, high, good, coil) ==
    IF temp > high THEN TRUE
    ELSE IF temp < good THEN FALSE
    ELSE coil

\* variant: every AC is judged by the thresholds of the unit's first AC
ControlCoilsSharedThreshold(m, hrv, cov) ==
    [k \in 1..m |-> NewCoilStatus(hrv[k], hrv[m + 1], hrv[2 * m + 1], cov[k])]

\* new_coil_statuses, from the registers and coils the tick has read
ControlCoils(m, hrv, cov) ==
    [k \in 1..m |-> NewCoilStatus(hrv[k], hrv[m + k], hrv[2 * m + k], cov[k])]

\* one simulation step for one AC
SimulatedTemp(temp, coil) ==
    IF coil THEN (IF temp > MIN_TEMP THEN temp - 1 ELSE temp)
    ELSE (IF temp < MAX_TEMP THEN temp + 1 ELSE temp)

\* variant: the thresholds are written back from the configuration
UpdatedHrRecomputed(m, hrv, coils) ==
    [k \in 1..m |-> SimulatedTemp(hrv[k], coils[k])]
        \o SubSeq(db_hr_initial_values(m), m + 1, Len(hrv))

\* updated_hr_values: simulated temperatures, then everything else as read
UpdatedHr(m, hrv, coils) ==
    [k \in 1..m |-> SimulatedTemp(hrv[k], coils[k])]
        \o SubSeq(hrv, m + 1, Len(hrv))

CtlIdle == [pc |-> "sleep", unit |-> 1, hrv |-> <<>>, cov |-> <<>>, new |-> <<>>]
MirIdle == [pc |-> "sleep", unit |-> 1, vals |-> <<>>, fresh |-> FALSE]

\* bookkeeping: the last set_temp_threshold whose two writes succeeded with
\* no other holding-register write since its first write
NoSet == [unit |-> 0, idx |-> 0, high |-> 0, good |-> 0]

\* the requests' records
NoReq == [op |-> "none", pc |-> "idle", unit |-> 0, idx |-> 0, high |-> 0,
          good |-> 0, val |-> FALSE, res |-> "none", clean |-> FALSE,
          data |-> <<>>, errors |-> 0]

\* a worker that serves no request in this behaviour
Offline == [NoReq EXCEPT !.op = "off"]

\* the registers, coils and threads of a freshly started server
ServerInit ==
    /\ numAc \in Layouts
    /\ hr = [u \in Units |-> db_hr_initial_values(numAc)]
    /\ co = [u \in Units |-> Rep(FALSE, numAc)]
    /\ di = [u \in Units |-> Rep(FALSE, numAc)]
    /\ lock = "free"
    /\ ctl = CtlIdle
    /\ mir = MirIdle
    /\ nreq = 0
    /\ nticks = 0
    /\ synced = [u \in Units |-> FALSE]
    /\ lastSet = NoSet

\* one worker serves the requests, one at a time
Init ==
    /\ ServerInit
    /\ req = [c \in Clients |-> IF c = 1 THEN NoReq ELSE Offline]

\* bookkeeping of a coil write to unit u: it ends the mirrored state of u,
\* and a copy the MirrorLoop has read but not yet written is no longer fresh
CoilWritten(u) ==
    /\ synced' = [synced EXCEPT ![u] = FALSE]
    /\ mir' = IF mir.pc = "writedi" /\ mir.unit = u
              THEN [mir EXCEPT !.fresh = FALSE] ELSE mir

\* `with data_lock:` of update_temperature_and_coils_thread
CtlAcquire ==
    /\ ctl.pc = "sleep" /\ lock = "free" /\ nticks < MaxTicks
    /\ lock' = "ctl"
    /\ ctl' = [ctl EXCEPT !.pc = "readhr", !.unit = 1]
    /\ nticks' = nticks + 1
    /\ UNCHANGED <<numAc, hr, co, di, mir, req, nreq, synced, lastSet>>

\* the same acquisition, in the specifications that do not count the ticks
CtlAcquireFree ==
    /\ ctl.pc = "sleep" /\ lock = "free"
    /\ lock' = "ctl"
    /\ ctl' = [ctl EXCEPT !.pc = "readhr", !.unit = 1]
    /\ UNCHANGED <<numAc, hr, co, di, mir, req, nreq, nticks, synced, lastSet>>

\* hr_all_vals = hr_block.getValues(0, count); the 16-register variant
\* skips the unit when the length is not 16
CtlNextUnit(u) ==
    IF u = 1 THEN [CtlIdle EXCEPT !.pc = "readhr", !.unit = 2]
    ELSE CtlIdle

CtlReadHr ==
    /\ ctl.pc = "readhr"
    /\ LET vals == GetValues(hr[ctl.unit], 0, HrCount(numAc))
       IN IF numAc = 5 /\ Len(vals) # 16
          THEN /\ ctl' = CtlNextUnit(ctl.unit)
               /\ lock' = IF ctl.unit = 2 THEN "free" ELSE lock
          ELSE /\ ctl' = [ctl EXCEPT !.pc = "readco", !.hrv = vals]
               /\ lock' = lock
    /\ UNCHANGED <<numAc, hr, co, di, mir, req, nreq, nticks, synced, lastSet>>

\* the same read when the block hands back one register fewer than asked
\* for: the 16-register variant skips the unit, the 18-register variant has
\* no length test and goes on with the short list
CtlReadHrShort ==
    /\ ctl.pc = "readhr"
    /\ LET vals == GetValues(hr[ctl.unit], 0, HrCount(numAc) - 1)
       IN IF numAc = 5 /\ Len(vals) # 16
          THEN /\ ctl' = CtlNextUnit(ctl.unit)
               /\ lock' = IF ctl.unit = 2 THEN "free" ELSE lock
          ELSE /\ ctl' = [ctl EXCEPT !.pc = "readco", !.hrv = vals]
               /\ lock' = lock
    /\ UNCHANGED <<numAc, hr, co, di, mir, req, nreq, nticks, synced, lastSet>>

\* the control loop indexes past the end of a slice of a short list: it does
\* when it reaches an AC whose good threshold is missing and whose
\* temperature is not above its high threshold (the elif is evaluated)
IndexError(m, hrv) ==
    \E k \in 1..m : 2 * m + k > Len(hrv) /\ ~(hrv[k] > hrv[m + k])

\* the IndexError is caught nowhere: `with` releases data_lock and the
\* thread ends, before anything was written for the unit
CtlRaise ==
    /\ ctl.pc = "writeco"
    /\ IndexError(numAc, ctl.hrv)
    /\ ctl' = [CtlIdle EXCEPT !.pc = "dead"]
    /\ lock' = "free"
    /\ UNCHANGED <<numAc, hr, co, di, mir, req, nreq, nticks, synced, lastSet>>

\* _current_coils_for_deadband = co_block.getValues(0, count)
CtlReadCoils ==
    /\ ctl.pc = "readco"
    /\ ctl' = [ctl EXCEPT !.pc = "writeco", !.cov = GetValues(co[ctl.unit], 0, numAc)]
    /\ UNCHANGED <<numAc, hr, co, di, lock, mir, req, nreq, nticks, synced, lastSet>>

\* the control loop over i, then co_block.setValues(0, new_coil_statuses)
CtlWriteCoils ==
    /\ ctl.pc = "writeco"
    /\ ~IndexError(numAc, ctl.hrv)
    /\ LET new == ControlCoils(numAc, ctl.hrv, ctl.cov)
       IN /\ co' = [co EXCEPT ![ctl.unit] = SetValues(@, 0, new)]
          /\ ctl' = [ctl EXCEPT !.pc = "writehr", !.new = new]
    /\ CoilWritten(ctl.unit)
    /\ UNCHANGED <<numAc, hr, di, lock, req, nreq, nticks, lastSet>>

\* variant: the simulation looks at the coils as they were read
CtlWriteHrOldCoils ==
    /\ ctl.pc = "writehr"
    /\ hr' = [hr EXCEPT ![ctl.unit] = SetValues(@, 0, UpdatedHr(numAc, ctl.hrv, ctl.cov))]
    /\ ctl' = CtlNextUnit(ctl.unit)
    /\ lock' = IF ctl.unit = 2 THEN "free" ELSE lock
    /\ req' = [d \in Clients |-> [req[d] EXCEPT !.clean = FALSE]]
    /\ lastSet' = NoSet
    /\ UNCHANGED <<numAc, co, di, mir, nreq, nticks, synced>>

\* the simulation loop over i, then hr_block.setValues(0, updated_hr_values);
\* after the last unit the lock is released and the thread sleeps
CtlWriteHr ==
    /\ ctl.pc = "writehr"
    /\ hr' = [hr EXCEPT ![ctl.unit] = SetValues(@, 0, UpdatedHr(numAc, ctl.hrv, ctl.new))]
    /\ ctl' = CtlNextUnit(ctl.unit)
    /\ lock' = IF ctl.unit = 2 THEN "free" ELSE lock
    /\ req' = [d \in Clients |-> [req[d] EXCEPT !.clean = FALSE]]
    /\ lastSet' = NoSet
    /\ UNCHANGED <<numAc, co, di, mir, nreq, nticks, synced>>

\* ------------------------------------------------------------ MirrorLoop
\* `with data_lock:` of update_discrete_inputs_thread
MirAcquire ==
    /\ mir.pc = "sleep" /\ lock = "free"
    /\ lock' = "mir"
    /\ mir' = [mir EXCEPT !.pc = "readco", !.unit = 1]
    /\ UNCHANGED <<numAc, hr, co, di, ctl, req, nreq, nticks, synced, lastSet>>

\* variant: the copy is read from the discrete inputs
MirReadCoilsFromDi ==
    /\ mir.pc = "readco"
    /\ mir' = [mir EXCEPT !.pc = "writedi", !.fresh = TRUE,
                          !.vals = GetValues(di[mir.unit], 0, numAc)]
    /\ synced' = [synced EXCEPT ![mir.unit] = FALSE]
    /\ UNCHANGED <<numAc, hr, co, di, lock, ctl, req, nreq, nticks, lastSet>>

\* coil_vals = co_block.getValues(0, count)
MirReadCoils ==
    /\ mir.pc = "readco"
    /\ mir' = [mir EXCEPT !.pc = "writedi", !.fresh = TRUE,
                          !.vals = GetValues(co[mir.unit], 0, numAc)]
    /\ synced' = [synced EXCEPT ![mir.unit] = FALSE]
    /\ UNCHANGED <<numAc, hr, co, di, lock, ctl, req, nreq, nticks, lastSet>>

\* di_block.setValues(0, coil_vals); after the last unit the lock is released
MirWriteDi ==
    /\ mir.pc = "writedi"
    /\ di' = [di EXCEPT ![mir.unit] = SetValues(@, 0, mir.vals)]
    /\ synced' = [synced EXCEPT ![mir.unit] = mir.fresh]
    /\ mir' = IF mir.unit = 1 THEN [MirIdle EXCEPT !.pc = "readco", !.unit = 2]
              ELSE MirIdle
    /\ lock' = IF mir.unit = 2 THEN "free" ELSE lock
    /\ UNCHANGED <<numAc, hr, co, ctl, req, nreq, nticks, lastSet>>

\* ------------------------------------------------------ client requests
\* variant: the upper end of the index range is included
ValidCoilRequestInclusive(address) ==
    0 <= address /\ address <= NUM_AC_UNITS_CLIENT

\* the validation of set_coil
ValidCoilRequest(address) ==
    0 <= address /\ address < NUM_AC_UNITS_CLIENT

\* variant: the order of the two thresholds is not checked
ValidThresholdRequestUnordered(ac_index, high_temp, good_temp) ==
    /\ 0 <= ac_index /\ ac_index < NUM_AC_UNITS_CLIENT
    /\ 0 <= high_temp /\ high_temp <= MAX_THRESHOLD
    /\ 0 <= good_temp /\ good_temp <= MAX_THRESHOLD

\* the validation of set_temp_threshold
ValidThresholdRequest(ac_index, high_temp, good_temp) ==
    /\ 0 <= ac_index /\ ac_index < NUM_AC_UNITS_CLIENT
    /\ 0 <= high_temp /\ high_temp <= MAX_THRESHOLD
    /\ 0 <= good_temp /\ good_temp <= MAX_THRESHOLD
    /\ good_temp < high_temp

\* variant: the high thresholds start one register later
addr_high_T_shifted(ac_index) == NUM_AC_UNITS_CLIENT + ac_index + 1

\* the addresses set_temp_threshold writes
addr_high_T(ac_index) == NUM_AC_UNITS_CLIENT + ac_index

\* variant: the base of the good-threshold block is off by one
addr_good_T_shifted(ac_index) == NUM_AC_UNITS_CLIENT * 2 + ac_index + 1

addr_good_T(ac_index) == NUM_AC_UNITS_CLIENT * 2 + ac_index

\* process_hr_data: the three blocks of a 16-register answer, else defaults
process_hr_data(hr_data) ==
    IF Len(hr_data) = CLIENT_HR_COUNT
    THEN [temps |-> SubSeq(hr_data, 1, NUM_AC_UNITS_CLIENT),
          high_T |-> SubSeq(hr_data, NUM_AC_UNITS_CLIENT + 1, NUM_AC_UNITS_CLIENT * 2),
          good_T |-> SubSeq(hr_data, NUM_AC_UNITS_CLIENT * 2 + 1, NUM_AC_UNITS_CLIENT * 3)]
    ELSE [temps |-> Rep(INITIAL_TEMP, NUM_AC_UNITS_CLIENT),
          high_T |-> Rep(INITIAL_HIGH, NUM_AC_UNITS_CLIENT),
          good_T |-> Rep(INITIAL_GOOD, NUM_AC_UNITS_CLIENT)]

\* process_di_data
process_di_data(di_data) ==
    IF Len(di_data) = NUM_AC_UNITS_CLIENT THEN di_data
    ELSE Rep(FALSE, NUM_AC_UNITS_CLIENT)

\* a worker may take a new request
MayStart(c) ==
    /\ req[c].op = "none" /\ nreq < MaxRequests

\* a handler up to client.connect(): rejected by its validation, refused
\* by the connection, or connected and at its first Modbus request
Entered(r, valid, connected, first) ==
    IF ~valid THEN [r EXCEPT !.pc = "done", !.res = "rejected"]
    ELSE IF ~connected THEN [r EXCEPT !.pc = "done", !.res = "connfail"]
    ELSE [r EXCEPT !.pc = first]

\* set_coil: parameters, validation, connect
StartCoil(c) ==
    /\ MayStart(c)
    /\ \E u \in UnitInputs, a \in CoilInputs, connected \in BOOLEAN :
          req' = [req EXCEPT ![c] =
                    Entered([NoReq EXCEPT !.op = "coil", !.unit = u, !.idx = a[1], !.val = a[2]],
                            ValidCoilRequest(a[1]), connected, "wc")]
    /\ nreq' = nreq + 1
    /\ UNCHANGED <<numAc, hr, co, di, lock, ctl, mir, nticks, synced, lastSet>>

\* variant: a coil write shows in the discrete input at once
CoilWriteThrough(c) ==
    /\ req[c].pc = "wc"
    /\ \E delivered \in BOOLEAN :
          IF delivered /\ Validate(co[req[c].unit], req[c].idx, 1)
          THEN /\ co' = [co EXCEPT ![req[c].unit] = SetValues(@, req[c].idx, <<req[c].val>>)]
               /\ di' = [di EXCEPT ![req[c].unit] = SetValues(@, req[c].idx, <<req[c].val>>)]
               /\ req' = [req EXCEPT ![c].pc = "done", ![c].res = "ok"]
               /\ CoilWritten(req[c].unit)
          ELSE /\ req' = [req EXCEPT ![c].pc = "done", ![c].res = "fail"]
               /\ UNCHANGED <<co, di, mir, synced>>
    /\ UNCHANGED <<numAc, hr, lock, ctl, nreq, nticks, lastSet>>

\* write_coil_register: the endpoint writes the coil, or answers an error
CoilWrite(c) ==
    /\ req[c].pc = "wc"
    /\ \E delivered \in BOOLEAN :
          IF delivered /\ Validate(co[req[c].unit], req[c].idx, 1)
          THEN /\ co' = [co EXCEPT ![req[c].unit] = SetValues(@, req[c].idx, <<req[c].val>>)]
               /\ req' = [req EXCEPT ![c].pc = "done", ![c].res = "ok"]
               /\ CoilWritten(req[c].unit)
          ELSE /\ req' = [req EXCEPT ![c].pc = "done", ![c].res = "fail"]
               /\ UNCHANGED <<co, mir, synced>>
    /\ UNCHANGED <<numAc, hr, di, lock, ctl, nreq, nticks, lastSet>>

\* set_temp_threshold: parameters, validation, connect
StartThreshold(c) ==
    /\ MayStart(c)
    /\ \E u \in UnitInputs, t \in ThresholdInputs, connected \in BOOLEAN :
          req' = [req EXCEPT ![c] =
                    Entered([NoReq EXCEPT !.op = "thr", !.unit = u, !.idx = t[1],
                                          !.high = t[2], !.good = t[3]],
                            ValidThresholdRequest(t[1], t[2], t[3]), connected, "w1")]
    /\ nreq' = nreq + 1
    /\ UNCHANGED <<numAc, hr, co, di, lock, ctl, mir, nticks, synced, lastSet>>

\* variant: the register is written although an error is answered
EndpointWriteHrApplied(c, address, value, pcOk, resOk, resFail) ==
    \E delivered \in BOOLEAN :
        /\ hr' = [hr EXCEPT ![req[c].unit] = SetValues(@, address, <<value>>)]
        /\ lastSet' = NoSet
        /\ req' = IF delivered
                  THEN [req EXCEPT ![c].pc = pcOk, ![c].res = resOk]
                  ELSE [req EXCEPT ![c].pc = "done", ![c].res = resFail]

\* write_single_holding_register as the endpoint serves it: the register
\* is written, or an error is answered and nothing is written.  Every other
\* request loses its `clean` mark (a register changed under it).
EndpointWriteHr(c, address, value, pcOk, resOk, resFail) ==
    \E delivered \in BOOLEAN :
        IF delivered /\ Validate(hr[req[c].unit], address, 1)
        THEN /\ hr' = [hr EXCEPT ![req[c].unit] = SetValues(@, address, <<value>>)]
             /\ req' = [d \in Clients |->
                          IF d = c
                          THEN [req[c] EXCEPT !.pc = pcOk, !.res = resOk,
                                              !.clean = (pcOk = "w2" \/ @)]
                          ELSE [req[d] EXCEPT !.clean = FALSE]]
             /\ lastSet' = IF pcOk = "done" /\ req[c].clean
                           THEN [unit |-> req[c].unit, idx |-> req[c].idx,
                                 high |-> req[c].high, good |-> req[c].good]
                           ELSE NoSet
        ELSE /\ req' = [req EXCEPT ![c].pc = "done", ![c].res = resFail]
             /\ UNCHANGED <<hr, lastSet>>

\* variant: the second write is attempted whatever the first one answered
ThresholdWriteHighGoesOn(c) ==
    /\ req[c].pc = "w1"
    /\ \E delivered \in BOOLEAN :
          IF delivered /\ Validate(hr[req[c].unit], addr_high_T(req[c].idx), 1)
          THEN /\ hr' = [hr EXCEPT ![req[c].unit] =
                            SetValues(@, addr_high_T(req[c].idx), <<req[c].high>>)]
               /\ req' = [req EXCEPT ![c].pc = "w2", ![c].clean = TRUE]
          ELSE /\ req' = [req EXCEPT ![c].pc = "w2", ![c].res = "fail1"]
               /\ hr' = hr
    /\ lastSet' = NoSet
    /\ UNCHANGED <<numAc, co, di, lock, ctl, mir, nreq, nticks, synced>>

\* success1 = write_single_holding_register(client, unit_id, addr_high_T, high_temp)
ThresholdWriteHigh(c) ==
    /\ req[c].pc = "w1"
    /\ EndpointWriteHr(c, addr_high_T(req[c].idx), req[c].high, "w2", "none", "fail1")
    /\ UNCHANGED <<numAc, co, di, lock, ctl, mir, nreq, nticks, synced>>

\* success2 = write_single_holding_register(client, unit_id, addr_good_T, good_temp)
ThresholdWriteGood(c) ==
    /\ req[c].pc = "w2"
    /\ EndpointWriteHr(c, addr_good_T(req[c].idx), req[c].good, "done", "ok", "fail2")
    /\ UNCHANGED <<numAc, co, di, lock, ctl, mir, nreq, nticks, synced>>

\* get_data: connect
StartRead(c) ==
    /\ MayStart(c)
    /\ \E connected \in BOOLEAN :
          req' = [req EXCEPT ![c] = Entered([NoReq EXCEPT !.op = "read"], TRUE, connected, "r1")]
    /\ nreq' = nreq + 1
    /\ UNCHANGED <<numAc, hr, co, di, lock, ctl, mir, nticks, synced, lastSet>>

\* read_registers as the endpoint serves it: the values, or an error (None)
EndpointRead(block, address, count, delivered) ==
    IF delivered /\ Validate(block, address, count)
    THEN <<GetValues(block, address, count)>>
    ELSE <<>>

\* the four read_registers calls of get_data, in order: HR and DI of unit 1,
\* HR and DI of unit 2; after the last, the error check and the processing
ReadRegisters(c) ==
    /\ req[c].pc \in {"r1", "r2", "r3", "r4"}
    /\ \E delivered \in BOOLEAN :
          LET pc == req[c].pc
              u == IF pc \in {"r1", "r2"} THEN 1 ELSE 2
              got == IF pc \in {"r1", "r3"}
                     THEN EndpointRead(hr[u], 0, CLIENT_HR_COUNT, delivered)
                     ELSE EndpointRead(di[u], 0, NUM_AC_UNITS_CLIENT, delivered)
              errors == req[c].errors + (IF got = <<>> THEN 1 ELSE 0)
              data == req[c].data \o (IF got = <<>> THEN <<got>> ELSE got)
          IN req' = [req EXCEPT ![c].data = data, ![c].errors = errors,
                                ![c].pc = CASE pc = "r1" -> "r2" [] pc = "r2" -> "r3"
                                            [] pc = "r3" -> "r4" [] OTHER -> "done",
                                ![c].res = IF pc # "r4" THEN "none"
                                           ELSE IF errors > 0 THEN "readerr" ELSE "ok"]
    /\ UNCHANGED <<numAc, hr, co, di, lock, ctl, mir, nreq, nticks, synced, lastSet>>

\* read_registers when the peer answers without an error but with one value
\* fewer than requested: response.registers (or response.bits[:count]) is
\* returned as it came
ReadRegistersShort(c) ==
    /\ req[c].pc \in {"r1", "r2", "r3", "r4"}
    /\ LET pc == req[c].pc
           u == IF pc \in {"r1", "r2"} THEN 1 ELSE 2
           got == IF pc \in {"r1", "r3"}
                  THEN GetValues(hr[u], 0, CLIENT_HR_COUNT - 1)
                  ELSE GetValues(di[u], 0, NUM_AC_UNITS_CLIENT - 1)
       IN req' = [req EXCEPT ![c].data = req[c].data \o <<got>>,
                             ![c].pc = CASE pc = "r1" -> "r2" [] pc = "r2" -> "r3"
                                         [] pc = "r3" -> "r4" [] OTHER -> "done",
                             ![c].res = IF pc # "r4" THEN "none"
                                        ELSE IF req[c].errors > 0 THEN "readerr" ELSE "ok"]
    /\ UNCHANGED <<numAc, hr, co, di, lock, ctl, mir, nreq, nticks, synced, lastSet>>

\* the response of get_data, from the four answers
response_data(data) ==
    [unit1 |-> process_hr_data(data[1]), inputs_1 |-> process_di_data(data[2]),
     unit2 |-> process_hr_data(data[3]), inputs_2 |-> process_di_data(data[4])]

\* the handler returns its response; the worker is free for the next request
Return(c) ==
    /\ req[c].pc = "done"
    /\ req' = [req EXCEPT ![c] = NoReq]
    /\ UNCHANGED <<numAc, hr, co, di, lock, ctl, mir, nreq, nticks, synced, lastSet>>

Next ==
    \/ CtlAcquire
    \/ CtlReadHr
    \/ CtlReadCoils
    \/ CtlWriteCoils
    \/ CtlWriteHr
    \/ MirAcquire
    \/ MirReadCoils
    \/ MirWriteDi
    \/ \E c \in Clients : StartCoil(c)
    \/ \E c \in Clients : CoilWrite(c)
    \/ \E c \in Clients : StartThreshold(c)
    \/ \E c \in Clients : ThresholdWriteHigh(c)
    \/ \E c \in Clients : ThresholdWriteGood(c)
    \/ \E c \in Clients : StartRead(c)
    \/ \E c \in Clients : ReadRegisters(c)
    \/ \E c \in Clients : Return(c)

Spec == Init /\ [][Next]_vars

\* -------------------------------------------- the server left to itself
\* no worker serves a request: only the two periodic threads run
InitServer ==
    /\ ServerInit
    /\ req = [c \in Clients |-> Offline]

\* the steps of the ControlLoop inside its tick
CtlTick ==
    \/ CtlReadHr
    \/ CtlReadCoils
    \/ CtlWriteCoils
    \/ CtlWriteHr

\* the steps of the MirrorLoop inside its tick
MirTick ==
    \/ MirReadCoils
    \/ MirWriteDi

NextServer ==
    \/ CtlAcquireFree
    \/ CtlTick
    \/ MirAcquire
    \/ MirTick

SpecServer == InitServer /\ [][NextServer]_vars

\* both threads are `while True` loops that sleep between ticks: a thread
\* inside its tick goes on, and a thread that wakes up again and again while
\* the other one sleeps gets data_lock
SpecServerFair ==
    /\ SpecServer
    /\ WF_vars(CtlTick) /\ SF_vars(CtlAcquireFree)
    /\ WF_vars(MirTick) /\ SF_vars(MirAcquire)

\* --------------------------------- the server with failing register reads
\* the two threads, where a holding-register read of the ControlLoop may
\* come back short
NextFault ==
    \/ NextServer
    \/ CtlReadHrShort
    \/ CtlRaise

SpecFault == InitServer /\ [][NextFault]_vars

\* ------------------------------------------ a tick from any register state
\* temperatures at and next to the two stops of the simulation
TickTemps == {MIN_TEMP, MIN_TEMP + 1, INITIAL_TEMP, MAX_TEMP - 1, MAX_TEMP}

\* <<high, good>> pairs the registers can hold: the initial one, pairs a
\* set_temp_threshold accepts, and the pair left by a request whose second
\* write failed
TickThresholds == {<<INITIAL_HIGH, INITIAL_GOOD>>, <<10, 5>>, <<50, 12>>, <<6, 5>>,
                   <<10, INITIAL_GOOD>>, <<MIN_TEMP + 2, MIN_TEMP + 1>>,
                   <<MAX_TEMP - 1, MAX_TEMP - 2>>}

\* a holding block whose ACs all hold one temperature and one pair
HrBlock(m, temp, high, good) ==
    Rep(temp, m) \o Rep(high, m) \o Rep(good, m)
        \o (IF m = 5 THEN <<LAST_DUMMY_VALUE>> ELSE <<>>)

\* the server some time into its run: unit 1 holds any of the register and
\* coil states above, unit 2 its initial ones; no worker serves a request
InitTick ==
    /\ numAc \in Layouts
    /\ \E temp \in TickTemps, th \in TickThresholds, coil \in BOOLEAN :
          /\ hr = [u \in Units |-> IF u = 1 THEN HrBlock(numAc, temp, th[1], th[2])
                                   ELSE db_hr_initial_values(numAc)]
          /\ co = [u \in Units |-> Rep(u = 1 /\ coil, numAc)]
    /\ di = [u \in Units |-> Rep(FALSE, numAc)]
    /\ lock = "free"
    /\ ctl = CtlIdle
    /\ mir = MirIdle
    /\ req = [c \in Clients |-> Offline]
    /\ nreq = 0
    /\ nticks = 0
    /\ synced = [u \in Units |-> FALSE]
    /\ lastSet = NoSet

SpecTick == InitTick /\ [][NextServer]_vars

\* the same under the scheduling of SpecServerFair
SpecTickFair ==
    /\ SpecTick
    /\ WF_vars(CtlTick) /\ SF_vars(CtlAcquireFree)
    /\ WF_vars(MirTick) /\ SF_vars(MirAcquire)

\* ------------------------------------ get_data against an unreliable peer
\* one worker serves get_data requests; an answer arrives whole, short or
\* as an error
NextRead ==
    \/ \E c \in Clients : StartRead(c)
    \/ \E c \in Clients : ReadRegisters(c)
    \/ \E c \in Clients : ReadRegistersShort(c)
    \/ \E c \in Clients : Return(c)

SpecRead == Init /\ [][NextRead]_vars

\* ----------------------------------- two workers serving set_temp_threshold
\* Flask serves each request on a thread of its own: two set_temp_threshold
\* requests run at once against the started server
InitRace ==
    /\ ServerInit
    /\ req = [c \in Clients |-> NoReq]

NextRace ==
    \/ \E c \in Clients : StartThreshold(c)
    \/ \E c \in Clients : ThresholdWriteHigh(c)
    \/ \E c \in Clients : ThresholdWriteGood(c)
    \/ \E c \in Clients : Return(c)

SpecRace == InitRace /\ [][NextRace]_vars

\* ================================================================ claims
\* the step of a tick that commits new_coil_statuses for unit ctl.unit
ControlStep == ctl.pc = "writeco" /\ ctl'.pc = "writehr"
\* what the tick read for AC i (1-based) of that unit
TickTemp(i) == ctl.hrv[i]
TickHigh(i) == ctl.hrv[numAc + i]
TickGood(i) == ctl.hrv[2 * numAc + i]

\* C1: when the temperature a tick read for AC i is above the high threshold
\* it read, the tick writes coil i TRUE, whatever the coil was.
HighTurnsCoilOn ==
    [][ControlStep =>
        \A i \in 1..numAc : TickTemp(i) > TickHigh(i) => co'[ctl.unit][i] = TRUE]_vars

HighTurnsCoilOnWitness ==
    /\ ctl.pc = "writehr"
    /\ \E i \in 1..numAc :
          /\ ctl.hrv[i] > ctl.hrv[numAc + i] /\ ctl.hrv[i] < ctl.hrv[2 * numAc + i]
          /\ co[ctl.unit][i] = TRUE

\* C2 as stated: when the temperature a tick read is below the good threshold
\* it read, the tick writes coil i FALSE, in every reachable state.
LowTurnsCoilOff ==
    [][ControlStep =>
        \A i \in 1..numAc : TickTemp(i) < TickGood(i) => co'[ctl.unit][i] = FALSE]_vars

\* C2 amended: when the temperature a tick read is below the good threshold
\* and not above the high threshold, the tick writes coil i FALSE.
LowNotHighTurnsCoilOff ==
    [][ControlStep =>
        \A i \in 1..numAc :
            (TickTemp(i) < TickGood(i) /\ ~(TickTemp(i) > TickHigh(i)))
                => co'[ctl.unit][i] = FALSE]_vars

LowNotHighTurnsCoilOffWitness ==
    /\ ctl.pc = "writehr"
    /\ \E i \in 1..numAc :
          /\ ctl.hrv[i] < ctl.hrv[2 * numAc + i] /\ ctl.hrv[i] <= ctl.hrv[numAc + i]
          /\ ctl.cov[i] = TRUE
          /\ co[ctl.unit][i] = FALSE

\* C3: when the temperature a tick read lies between the good and the high
\* threshold it read (both included), the tick writes back the coil value it
\* read.
DeadbandKeepsCoil ==
    [][ControlStep =>
        \A i \in 1..numAc :
            (TickGood(i) <= TickTemp(i) /\ TickTemp(i) <= TickHigh(i))
                => co'[ctl.unit][i] = ctl.cov[i]]_vars

DeadbandKeepsCoilWitness ==
    /\ ctl.pc = "writehr"
    /\ \E i \in 1..numAc :
          /\ ctl.hrv[2 * numAc + i] <= ctl.hrv[i] /\ ctl.hrv[i] <= ctl.hrv[numAc + i]
          /\ ctl.cov[i] = TRUE
          /\ co[ctl.unit][i] = TRUE

\* C4: every temperature a ControlLoop tick writes back lies in [7, 30].
TickKeepsTempInRange ==
    [][(ctl.pc = "writehr" /\ ctl'.pc # "writehr") =>
        \A i \in 1..numAc :
            MIN_TEMP <= hr'[ctl.unit][i] /\ hr'[ctl.unit][i] <= MAX_TEMP]_vars

\* C5: a request served by the endpoint takes effect only while neither
\* periodic thread is inside its tick (data_lock is free).
EndpointExcludedFromTicks ==
    [][\A c \in Clients :
          (req[c].pc \in {"wc", "w1", "w2", "r1", "r2", "r3", "r4"} /\ req'[c] # req[c])
              => lock = "free"]_vars

BadCoilArgs(r) == r.idx < 0 \/ r.idx >= 5
BadThresholdArgs(r) ==
    \/ r.idx < 0 \/ r.idx >= 5
    \/ r.high < 0 \/ r.high > 50
    \/ r.good < 0 \/ r.good > 50
    \/ r.good >= r.high
BadArgs(r) ==
    \/ r.op = "coil" /\ BadCoilArgs(r)
    \/ r.op = "thr" /\ BadThresholdArgs(r)

\* C7: a set_temp_threshold or set_coil request with arguments outside the
\* policy is answered "rejected" by the step that receives it, never reaches
\* a connection or a write, and that step changes no register or coil.
RejectedLocally ==
    /\ [](\A c \in Clients :
            BadArgs(req[c]) => req[c].pc = "done" /\ req[c].res = "rejected")
    /\ [][\A c \in Clients :
            (req[c].op = "none" /\ BadArgs(req'[c])) => UNCHANGED <<hr, co, di>>]_vars

RejectedLocallyWitness ==
    \E c \in Clients :
        /\ req[c].op = "thr" /\ req[c].res = "rejected"
        /\ req[c].idx = 0 /\ req[c].high = 20 /\ req[c].good = 25

\* C8: when the good-threshold write fails after the high-threshold write
\* succeeded, the request reports failure and writes nothing: the high
\* register keeps the value just written and the good register its old one.
SecondWriteFailureKeepsFirst ==
    [][\A c \in Clients :
          (req[c].pc = "w2" /\ req'[c].pc = "done" /\ req'[c].res # "ok") =>
              /\ req'[c].res = "fail2"
              /\ hr' = hr
              /\ req[c].clean =>
                    hr'[req[c].unit][addr_high_T(req[c].idx) + 1] = req[c].high]_vars

SecondWriteFailureKeepsFirstWitness ==
    \E c \in Clients :
        /\ req[c].res = "fail2" /\ req[c].clean
        /\ hr[req[c].unit][addr_high_T(req[c].idx) + 1] = req[c].high
        /\ hr[req[c].unit][addr_good_T(req[c].idx) + 1] # req[c].good
        /\ hr[req[c].unit][addr_high_T(req[c].idx) + 1] # INITIAL_HIGH

\* the holding-register read of get_data for unit u, answered
HrReadStep(c, u) ==
    /\ req[c].pc = (IF u = 1 THEN "r1" ELSE "r3")
    /\ req'[c].pc # req[c].pc
    /\ req'[c].errors = req[c].errors

\* C9: a successful write of a threshold register changes that register of
\* that unit and no other holding register; and a get_data read of the unit,
\* made after a set_temp_threshold succeeded and before any other
\* holding-register write, returns the two values at the request's AC index.
ThresholdRoundTrip ==
    /\ [][\A c \in Clients :
            (req[c].pc \in {"w1", "w2"} /\ req'[c].pc # req[c].pc /\ hr' # hr) =>
                LET a == IF req[c].pc = "w1" THEN NUM_AC_UNITS_CLIENT + req[c].idx
                         ELSE 2 * NUM_AC_UNITS_CLIENT + req[c].idx
                    v == IF req[c].pc = "w1" THEN req[c].high ELSE req[c].good
                IN \A u \in Units : \A k \in 1..Len(hr[u]) :
                      hr'[u][k] = IF u = req[c].unit /\ k = a + 1 THEN v ELSE hr[u][k]]_vars
    /\ [][\A c \in Clients : \A u \in Units :
            (HrReadStep(c, u) /\ lastSet # NoSet /\ lastSet.unit = u) =>
                LET view == process_hr_data(req'[c].data[Len(req'[c].data)])
                IN /\ view.high_T[lastSet.idx + 1] = lastSet.high
                   /\ view.good_T[lastSet.idx + 1] = lastSet.good]_vars

ThresholdRoundTripWitness ==
    \E c \in Clients :
        /\ req[c].op = "read" /\ req[c].pc = "r2" /\ req[c].errors = 0
        /\ lastSet # NoSet /\ lastSet.unit = 1
        /\ process_hr_data(req[c].data[1]).high_T[lastSet.idx + 1] = lastSet.high
        /\ process_hr_data(req[c].data[1]).good_T[lastSet.idx + 1] = lastSet.good
        /\ lastSet.high # INITIAL_HIGH /\ lastSet.good # INITIAL_GOOD

\* C10: once a MirrorLoop tick has copied a unit's coils, and until the next
\* coil write to that unit, every discrete input equals its coil.
MirrorConverges ==
    \A u \in Units : synced[u] => \A i \in 1..numAc : di[u][i] = co[u][i]

MirrorConvergesWitness ==
    \E u \in Units : synced[u] /\ \E i \in 1..numAc : co[u][i] = TRUE /\ di[u][i] = TRUE

\* the ControlLoop's split of a unit's holding block into its three arrays
ServerSplit(block) ==
    [temps |-> SubSeq(block, 1, numAc),
     high_T |-> SubSeq(block, numAc + 1, numAc * 2),
     good_T |-> SubSeq(block, numAc * 2 + 1, numAc * 3)]

\* C11: on either server layout the client and the server use one address
\* map: an applied high-threshold write changes exactly the register the
\* ControlLoop reads as highThreshold[i], an applied good-threshold write
\* exactly goodThreshold[i], an applied coil write exactly coil[i], and the
\* three arrays get_data cuts out of a holding-register answer are the first
\* entries of the server's three arrays.
AddressMapAgrees ==
    /\ [][\A c \in Clients :
            (req[c].pc = "w1" /\ req'[c].pc = "w2") =>
                /\ ServerSplit(hr'[req[c].unit]).high_T[req[c].idx + 1] = req[c].high
                /\ ServerSplit(hr'[req[c].unit]).temps = ServerSplit(hr[req[c].unit]).temps
                /\ ServerSplit(hr'[req[c].unit]).good_T = ServerSplit(hr[req[c].unit]).good_T]_vars
    /\ [][\A c \in Clients :
            (req[c].pc = "w2" /\ req'[c].res = "ok") =>
                /\ ServerSplit(hr'[req[c].unit]).good_T[req[c].idx + 1] = req[c].good
                /\ ServerSplit(hr'[req[c].unit]).temps = ServerSplit(hr[req[c].unit]).temps
                /\ ServerSplit(hr'[req[c].unit]).high_T = ServerSplit(hr[req[c].unit]).high_T]_vars
    /\ [][\A c \in Clients :
            (req[c].pc = "wc" /\ req'[c].res = "ok") =>
                co' = [co EXCEPT ![req[c].unit][req[c].idx + 1] = req[c].val]]_vars
    /\ [][\A c \in Clients : \A u \in Units :
            HrReadStep(c, u) =>
                LET view == process_hr_data(req'[c].data[Len(req'[c].data)])
                IN \A i \in 1..NUM_AC_UNITS_CLIENT :
                      /\ view.temps[i] = ServerSplit(hr[u]).temps[i]
                      /\ view.high_T[i] = ServerSplit(hr[u]).high_T[i]
                      /\ view.good_T[i] = ServerSplit(hr[u]).good_T[i]]_vars

\* the step of a tick that writes back the holding registers of unit ctl.unit
SimulationStep == ctl.pc = "writehr" /\ ctl'.pc # "writehr"

\* C12: the server left to itself from its initial state.  Every tick that
\* starts with the coil off and a temperature up to 27 leaves the coil off and
\* raises the temperature by 1; the tick that starts with 28 turns the coil on
\* and ends at 27; every tick that starts with the coil on and a temperature
\* above 19 keeps it on and lowers the temperature by 1; the tick that starts
\* with 19 turns the coil off and ends at 20.  A temperature that has reached
\* 19 stays within 19..28, and the coil is on and off again and again.
ScenarioCycle ==
    /\ [][SimulationStep =>
            \A i \in 1..numAc :
                LET t == ctl.hrv[i]
                    before == ctl.cov[i]
                    after == co[ctl.unit][i]
                    t1 == hr'[ctl.unit][i]
                IN /\ t \in INITIAL_TEMP..(INITIAL_HIGH + 1)
                   /\ (~before /\ t <= INITIAL_HIGH) => (~after /\ t1 = t + 1)
                   /\ t = INITIAL_HIGH + 1 => (after /\ t1 = t - 1)
                   /\ (before /\ t >= INITIAL_GOOD /\ t <= INITIAL_HIGH) => (after /\ t1 = t - 1)
                   /\ (before /\ t = INITIAL_GOOD - 1) => (~after /\ t1 = t + 1)
                   /\ before => t \in (INITIAL_GOOD - 1)..INITIAL_HIGH]_vars
    /\ [][\A u \in Units : \A i \in 1..numAc :
            hr[u][i] >= INITIAL_GOOD - 1 =>
                hr'[u][i] \in (INITIAL_GOOD - 1)..(INITIAL_HIGH + 1)]_vars
    /\ \A u \in Units : \A i \in 1..NUM_AC_UNITS_CLIENT :
            /\ []<>(co[u][i] = TRUE /\ hr[u][i] = INITIAL_HIGH + 1)
            /\ []<>(co[u][i] = FALSE /\ hr[u][i] = INITIAL_GOOD - 1)

ScenarioCycleWitness ==
    /\ ctl.pc = "writehr" /\ ctl.unit = 1
    /\ ctl.hrv[1] = INITIAL_GOOD - 1 /\ ctl.cov[1] = TRUE /\ co[1][1] = FALSE

\* the width get_data expects of its k-th answer
ExpectedWidth(k) == IF k \in {1, 3} THEN CLIENT_HR_COUNT ELSE NUM_AC_UNITS_CLIENT

\* an answer of the expected width that carries the default values
DefaultAnswer(k) ==
    IF k \in {1, 3} THEN db_hr_initial_values(NUM_AC_UNITS_CLIENT)
    ELSE Rep(FALSE, NUM_AC_UNITS_CLIENT)

\* C13: when get_data answers and one of its four reads returned a sequence
\* of another length than expected, the response shows the default vector
\* (15, 27, 20, FALSE) for that read, and the response tells the caller so: it
\* is not the response a genuine reading of the default values would get.
DefaultsUsedAndFlagged ==
    \A c \in Clients :
        (req[c].op = "read" /\ req[c].pc = "done" /\ req[c].res = "ok") =>
            \A k \in 1..4 :
                Len(req[c].data[k]) # ExpectedWidth(k) =>
                    /\ response_data(req[c].data) =
                          response_data([req[c].data EXCEPT ![k] = <<>>])
                    /\ process_hr_data(<<>>) = process_hr_data(DefaultAnswer(1))
                    /\ process_di_data(<<>>) = DefaultAnswer(2)
                    /\ response_data(req[c].data) #
                          response_data([req[c].data EXCEPT ![k] = DefaultAnswer(k)])

\* the four cases of the simulation, on the temperature t the tick read and
\* the coil c the tick decided
SimulationCases(t, c, t1) ==
    /\ (c /\ t > MIN_TEMP) => t1 = t - 1
    /\ (c /\ t <= MIN_TEMP) => t1 = t
    /\ (~c /\ t < MAX_TEMP) => t1 = t + 1
    /\ (~c /\ t >= MAX_TEMP) => t1 = t

\* C14 as stated: the temperature a tick writes back follows the four cases
\* on the coil decided in the same tick, and a tick that read t = high + 1
\* with the coil off writes the coil on and the temperature t - 1.
SimulationUsesNewCoil ==
    [][SimulationStep =>
        \A i \in 1..numAc :
            /\ SimulationCases(TickTemp(i), ctl.new[i], hr'[ctl.unit][i])
            /\ (TickTemp(i) = TickHigh(i) + 1 /\ ~ctl.cov[i]) =>
                  (ctl.new[i] /\ hr'[ctl.unit][i] = TickTemp(i) - 1)]_vars

\* C14 amended: the same, the last part for a temperature above the floor.
SimulationUsesNewCoilAboveFloor ==
    [][SimulationStep =>
        \A i \in 1..numAc :
            /\ SimulationCases(TickTemp(i), ctl.new[i], hr'[ctl.unit][i])
            /\ ctl.new[i] = NewCoilStatus(TickTemp(i), TickHigh(i), TickGood(i), ctl.cov[i])
            /\ (TickTemp(i) = TickHigh(i) + 1 /\ ~ctl.cov[i] /\ TickTemp(i) > MIN_TEMP) =>
                  (ctl.new[i] /\ hr'[ctl.unit][i] = TickTemp(i) - 1)]_vars

\* the tick has decided and is about to simulate
SimulationUsesNewCoilAboveFloorWitness ==
    /\ ctl.pc = "writehr" /\ ctl.unit = 1
    /\ ctl.hrv[1] = ctl.hrv[numAc + 1] + 1 /\ ctl.hrv[1] > MIN_TEMP
    /\ ctl.cov[1] = FALSE /\ ctl.new[1] = TRUE /\ co[1][1] = TRUE

\* C15: the good-threshold write of a request is issued only after its
\* high-threshold write was applied; when the high-threshold write fails the
\* request ends there with a failure, that step changes no holding register,
\* and the request makes no further write.
HighBeforeGood ==
    /\ [][\A c \in Clients :
            (req'[c].pc = "w2" /\ req[c].pc # "w2") =>
                /\ req[c].pc = "w1"
                /\ hr'[req[c].unit][addr_high_T(req[c].idx) + 1] = req[c].high]_vars
    /\ [][\A c \in Clients :
            (req[c].pc = "w1" /\ req'[c].pc # "w2" /\ req'[c] # req[c]) =>
                /\ req'[c].pc = "done" /\ req'[c].res = "fail1"
                /\ hr' = hr]_vars
    /\ [](\A c \in Clients : req[c].res = "fail1" => req[c].pc = "done")
    /\ [][\A c \in Clients :
            (req[c].res = "fail1" /\ req'[c] # req[c]) =>
                (req'[c] = NoReq /\ hr' = hr)]_vars

HighBeforeGoodWitness ==
    \E c \in Clients :
        /\ req[c].op = "thr" /\ req[c].res = "fail1" /\ req[c].high = 10
        /\ hr[req[c].unit][addr_high_T(req[c].idx) + 1] = INITIAL_HIGH
        /\ hr[req[c].unit][addr_good_T(req[c].idx) + 1] = INITIAL_GOOD

\* C16: with no client at work, a step of the ControlLoop changes temperature
\* registers and coils of the unit it is at and nothing else: every threshold
\* register, the reserved register, every discrete input and the other unit
\* are as before.
TickChangesTempsAndCoilsOnly ==
    [][ctl' # ctl =>
        /\ di' = di
        /\ \A u \in Units :
              /\ \A k \in (numAc + 1)..Len(hr[u]) : hr'[u][k] = hr[u][k]
              /\ Len(hr'[u]) = Len(hr[u])
              /\ u # ctl.unit => (hr'[u] = hr[u] /\ co'[u] = co[u])]_vars

TickChangesTempsAndCoilsOnlyWitness ==
    /\ numAc = 5 /\ ctl.pc = "readhr" /\ ctl.unit = 2
    /\ hr[1][1] = INITIAL_TEMP + 1
    /\ hr[1][numAc + 1] = 50 /\ hr[1][2 * numAc + 1] = 12
    /\ hr[1][3 * numAc + 1] = LAST_DUMMY_VALUE

\* the temperature of AC i is inside the deadband, in the registers the tick
\* read and in the registers now
InDeadband(i) ==
    /\ TickGood(i) <= TickTemp(i) /\ TickTemp(i) <= TickHigh(i)
    /\ ServerSplit(hr[ctl.unit]).good_T[i] <= ServerSplit(hr[ctl.unit]).temps[i]
    /\ ServerSplit(hr[ctl.unit]).temps[i] <= ServerSplit(hr[ctl.unit]).high_T[i]

\* C17: a coil write the server has acknowledged, with no later client write
\* to that coil, survives every tick that started with the temperature inside
\* the deadband: such a tick commits the written value for that coil.
ManualCoilPersists ==
    [][ControlStep =>
        \A c \in Clients :
            (/\ req[c].op = "coil" /\ req[c].pc = "done" /\ req[c].res = "ok"
             /\ req[c].unit = ctl.unit
             /\ InDeadband(req[c].idx + 1))
                => co'[ctl.unit][req[c].idx + 1] = req[c].val]_vars

\* the server keeps a threshold at this address (not a temperature)
IsThresholdAddress(address) == address >= numAc /\ address < 3 * numAc

\* C18: while a set_temp_threshold request stands acknowledged and no later
\* client write has been made, each threshold register it wrote holds the
\* value it wrote, whatever the ControlLoop did in between.
AckedThresholdKept ==
    \A c \in Clients :
        (req[c].op = "thr" /\ req[c].pc = "done" /\ req[c].res = "ok") =>
            /\ IsThresholdAddress(addr_high_T(req[c].idx)) =>
                  hr[req[c].unit][addr_high_T(req[c].idx) + 1] = req[c].high
            /\ IsThresholdAddress(addr_good_T(req[c].idx)) =>
                  hr[req[c].unit][addr_good_T(req[c].idx) + 1] = req[c].good

\* two acknowledged set_temp_threshold requests for the same unit and AC
BothAcked(c, d) ==
    /\ c # d
    /\ req[c].op = "thr" /\ req[c].pc = "done" /\ req[c].res = "ok"
    /\ req[d].op = "thr" /\ req[d].pc = "done" /\ req[d].res = "ok"
    /\ req[c].unit = req[d].unit /\ req[c].idx = req[d].idx

\* the <<high, good>> pair stored at the client's addresses for a request
StoredPair(r) ==
    <<hr[r.unit][NUM_AC_UNITS_CLIENT + r.idx + 1],
      hr[r.unit][2 * NUM_AC_UNITS_CLIENT + r.idx + 1]>>

DiOnlyFromMirror ==
    /\ \A u \in Units : di[u] = Rep(FALSE, numAc)
    /\ [][(mir.pc = "readco" /\ mir'.pc = "writedi") => mir'.vals = co[mir.unit]]_vars
    /\ [][di' # di =>
            /\ mir.pc = "writedi"
            /\ di' = [di EXCEPT ![mir.unit] = mir.vals]
            /\ ctl' = ctl /\ req' = req]_vars
    /\ [][(ctl' # ctl \/ req' # req) => di' = di]_vars

DiOnlyFromMirrorWitness ==
    /\ mir.pc = "readco" /\ mir.unit = 2
    /\ di[1][1] = TRUE /\ co[1][1] = FALSE
    /\ \E c \in Clients : req[c].op = "coil" /\ req[c].res = "ok" /\ req[c].val = FALSE

\* the ControlLoop's holding-register read of unit ctl.unit did not return
\* the expected number of registers
ShortReadStep ==
    /\ ctl.pc = "readhr" /\ ctl' # ctl
    /\ ~(ctl'.pc = "readco" /\ Len(ctl'.hrv) = HrCount(numAc))

\* C21: a holding-register read of the ControlLoop that comes back with
\* another length ends the update of that unit for this tick: the loop is at
\* the next unit, or asleep until the next tick after the last unit, no
\* coil or holding register has changed, and the thread never ends.
ShortReadSkipsUnit ==
    /\ [][ShortReadStep =>
            /\ ctl' = CtlNextUnit(ctl.unit)
            /\ hr' = hr /\ co' = co]_vars
    /\ [](ctl.pc # "dead")

\* the thresholds of AC i of unit u lie strictly between the two stops
CyclingThresholds(u, i) ==
    /\ MIN_TEMP < ServerSplit(hr[u]).good_T[i]
    /\ ServerSplit(hr[u]).good_T[i] < ServerSplit(hr[u]).high_T[i]
    /\ ServerSplit(hr[u]).high_T[i] < MAX_TEMP

\* the temperature of AC i of unit u, in the registers h, is within
\* [goodThreshold - 1, highThreshold + 1]
InCycleRange(h, u, i) ==
    /\ ServerSplit(h[u]).good_T[i] - 1 <= ServerSplit(h[u]).temps[i]
    /\ ServerSplit(h[u]).temps[i] <= ServerSplit(h[u]).high_T[i] + 1

\* C22: with no client at work and both threads scheduled fairly, every AC
\* whose thresholds satisfy 7 < good < high < 30 has its coil on again and
\* again and off again and again, and a temperature that is within
\* [good - 1, high + 1] is still within it after every step.
ControlCycleLive ==
    /\ [][\A u \in Units : \A i \in 1..numAc :
            (CyclingThresholds(u, i) /\ InCycleRange(hr, u, i))
                => InCycleRange(hr', u, i)]_vars
    /\ \A u \in Units : \A i \in 1..NUM_AC_UNITS_CLIENT :
            /\ []<>(CyclingThresholds(u, i) => co[u][i] = TRUE)
            /\ []<>(CyclingThresholds(u, i) => co[u][i] = FALSE)

\* an AC that started above its range has come down and completed a cycle
ControlCycleLiveWitness ==
    /\ ctl.pc = "writehr" /\ ctl.unit = 1
    /\ TickHigh(1) = MIN_TEMP + 2 /\ TickGood(1) = MIN_TEMP + 1
    /\ CyclingThresholds(1, 1)
    /\ TickTemp(1) = TickHigh(1) + 1 /\ ctl.cov[1] = FALSE /\ co[1][1] = TRUE

\* C23: a step that changes a holding register, coil or discrete input of a
\* unit is a ControlLoop step at that unit, the MirrorLoop's write at that
\* unit, or a write of a request addressed to that unit; and what a tick
\* writes for AC i of a unit is the rule and the simulation applied to
\* temperature, high threshold, good threshold and coil of AC i as the tick
\* read them from that same unit.
UnitsIndependent ==
    /\ [][\A u \in Units :
            (hr'[u] # hr[u] \/ co'[u] # co[u] \/ di'[u] # di[u]) =>
                \/ ctl' # ctl /\ u = ctl.unit /\ di'[u] = di[u]
                \/ mir.pc = "writedi" /\ mir'.pc # "writedi" /\ u = mir.unit
                      /\ hr'[u] = hr[u] /\ co'[u] = co[u]
                \/ \E c \in Clients :
                      /\ req[c].pc \in {"wc", "w1", "w2"} /\ req'[c].pc # req[c].pc
                      /\ u = req[c].unit /\ di'[u] = di[u]]_vars
    /\ [][(ctl.pc = "readhr" /\ ctl'.pc = "readco") => ctl'.hrv = hr[ctl.unit]]_vars
    /\ [][(ctl.pc = "readco" /\ ctl'.pc = "writeco") => ctl'.cov = co[ctl.unit]]_vars
    /\ [][ControlStep =>
            \A i \in 1..numAc :
                co'[ctl.unit][i] =
                    NewCoilStatus(TickTemp(i), TickHigh(i), TickGood(i), ctl.cov[i])]_vars
    /\ [][SimulationStep =>
            \A i \in 1..numAc :
                hr'[ctl.unit][i] =
                    SimulatedTemp(TickTemp(i),
                        NewCoilStatus(TickTemp(i), TickHigh(i), TickGood(i), ctl.cov[i]))]_vars

\* a tick has switched on one AC of unit 1 and no other, unit 2 is untouched
UnitsIndependentWitness ==
    /\ ctl.pc = "writehr" /\ ctl.unit = 1
    /\ TickHigh(1) # TickHigh(2)
    /\ co[1][1] = TRUE /\ co[1][2] = FALSE
    /\ hr[2] = db_hr_initial_values(numAc) /\ co[2] = Rep(FALSE, numAc)
====
